---- MODULE Spec2Model ----
(***************************************************************************)
(* A model of workflow/util.py: the LockFile advisory file lock and the    *)
(* uninterruptible SIGTERM-deferring decorator.                            *)
(*                                                                         *)
(* LockFile part.  Each handle is a LockFile instance living in a process. *)
(* The file system is one directory entry (self.lockfile) that names an    *)
(* inode or nothing; open(path, 'a') creates a fresh inode when the entry  *)
(* is empty; fcntl.lockf takes a POSIX record lock, which is owned by the  *)
(* PROCESS on the INODE, and closing any descriptor of the inode drops the *)
(* process's locks on it.  Time is discrete: time.sleep(delay) lasts       *)
(* exactly delay ticks and every other statement takes no time.            *)
(*                                                                         *)
(* uninterruptible part.  One process, its SIGTERM disposition, the guard  *)
(* instances and the stack of __call__ invocations in flight.              *)
(***************************************************************************)
EXTENDS Integers, Sequences, FiniteSets, TLC

\* ---------------------------------------------------------------- bounds
MaxTimeout == 2
MaxDelay == 2
MaxSignals == 2
MaxDepth == 2

\* line 385: timeout=0.0, delay=0.05 (one unit of time stands for 0.05 s)
DefaultTimeout == 0
DefaultDelay == 1

Handles == {"h1", "h2"}
Procs == {"p1", "p2"}
Guards == {"g1", "g2"}

\* inode 0 / descriptor 0 stand for "no file" / None
Inodes == 1..(Cardinality(Handles) + 1)
NoProc == "none"
ElapsedCap == MaxTimeout + MaxDelay + 1

VARIABLES
    \* ---- LockFile: configuration fixed by __init__
    proc,        \* handle -> the process it lives in
    timeout,     \* self.timeout
    delay,       \* self.delay
    \* ---- LockFile: per-handle state
    pc,          \* position of the handle's current call
    locked,      \* self._lock.is_set()
    lockfile,    \* self._lockfile: inode of the open file object, 0 = None
    \* locals of the acquire() in progress, dropped when it ends
    blocking,    \* the blocking argument
    elapsed,     \* time.time() - start
    remaining,   \* what is left of the time.sleep(self.delay) in progress
    reentrant,   \* the call was made with this handle's flag set
    contended,   \* another handle has held the lock ever since the call
    slept,       \* the call has executed a time.sleep
    \* what the caller saw
    ret,         \* result of the last finished call ("none" while in a call)
    op,          \* the call in progress or last finished: "acquire", "release",
                 \* "enter" (__enter__), "exit_ok" / "exit_err" (__exit__)
    trail,       \* results of the release() calls since the last acquire() -> True
    \* ---- the operating system
    path,        \* inode named by self.lockfile, 0 = no such file
    owner,       \* inode -> process owning the record lock on it
    \* ---- uninterruptible
    disp,        \* the process's SIGTERM disposition
    caught,      \* guard -> self._caught_signal
    old,         \* guard -> self.old_signal_handler
    stack,       \* the __call__ invocations in flight, innermost last
    alive,       \* "running", "exited" (sys.exit) or "killed" (default action)
    userCalls,   \* the arguments of every call of the program's own handler
    sigCount,    \* SIGTERMs delivered so far
    outcome      \* how the last finished outermost invocation ended

cfgVars == <<proc, timeout, delay>>
callVars == <<blocking, elapsed, remaining, reentrant, contended, slept>>
seenVars == <<ret, op, trail>>
osVars == <<path, owner>>
lockVars == <<cfgVars, pc, locked, lockfile, callVars, seenVars, osVars>>
guardVars == <<disp, caught, old, stack, alive, userCalls, sigCount, outcome>>
vars == <<lockVars, guardVars>>

Min(a, b) == IF a < b THEN a ELSE b

\* ------------------------------------------------------- operating system
InUse(i) == path = i \/ \E h \in Handles : lockfile[h] = i

\* the inode a creating open() allocates: the lowest one nobody refers to
FreshInode == CHOOSE i \in Inodes : ~InUse(i) /\ \A j \in 1..(i - 1) : InUse(j)

\* open(self.lockfile, 'a'): the inode at the path, created when absent
OpenAppend == IF path = 0 THEN FreshInode ELSE path

\* fcntl.lockf(fd, LOCK_EX | LOCK_NB) by process p succeeds unless ANOTHER
\* process owns a lock on the inode
LockfGranted(p, i) == owner[i] = NoProc \/ owner[i] = p

\* (mutant) LOCK_UN and close leave the record lock in place
Unlocked_Kept(p, i) == owner

\* the lock table after process p drops its lock on inode i (LOCK_UN, close)
Unlocked(p, i) == IF i # 0 /\ owner[i] = p THEN [owner EXCEPT ![i] = NoProc] ELSE owner

HoldsOsLock(h) == lockfile[h] # 0 /\ owner[lockfile[h]] = proc[h]

\* ------------------------------------------------------------- LockFile
\* the calls that run acquire(): directly, by __enter__, or directly again
\* after a call that timed out ("retry")
AcquireOps == {"acquire", "enter", "retry"}

\* the handle is inside the body of a with-block: __enter__ has returned
InBody(h) == pc[h] = "idle" /\ op[h] = "enter" /\ ret[h] = "True"

\* lines 451-461: the handle is inside release(), past the lockf(LOCK_UN)
Releasing(h) == pc[h] \in {"rel_clear", "rel_unlink"}

\* some handle other than h, and other than g, holds the lock: its flag is
\* set and it is not inside release()
OtherLocked(h, g) == \E k \in Handles \ {h, g} : locked[k] /\ ~Releasing(k)

\* results of the release() calls that followed the last acquire() -> True
TrailAfter(h, o, r) ==
    IF o \in AcquireOps
    THEN (IF r = "True" THEN <<"acquired">> ELSE <<>>)
    ELSE IF trail[h] # <<>> /\ Len(trail[h]) < 3 THEN Append(trail[h], r) ELSE <<>>

\* the call o of handle h ends with result r; its locals are dropped
Finish(h, o, r) ==
    /\ pc' = [pc EXCEPT ![h] = "idle"]
    /\ ret' = [ret EXCEPT ![h] = r]
    /\ op' = [op EXCEPT ![h] = o]
    /\ trail' = [trail EXCEPT ![h] = TrailAfter(h, o, r)]
    /\ blocking' = [blocking EXCEPT ![h] = TRUE]
    /\ elapsed' = [elapsed EXCEPT ![h] = 0]
    /\ reentrant' = [reentrant EXCEPT ![h] = FALSE]
    /\ contended' = [contended EXCEPT ![h] = FALSE]
    /\ slept' = [slept EXCEPT ![h] = FALSE]

\* (mutant) a timeout of zero is a deadline like any other
TimedOut_ZeroToo(h) == elapsed[h] >= timeout[h]

\* (mutant) the deadline is taken one poll interval early
TimedOut_Early(h) == timeout[h] # 0 /\ elapsed[h] + delay[h] >= timeout[h]

\* line 416: self.timeout and (time.time() - start) >= self.timeout
TimedOut(h) == timeout[h] # 0 /\ elapsed[h] >= timeout[h]

\* (mutant) the handle's own flag is not looked at in the loop
AlreadyLocked_Never(h) == FALSE

\* line 420: if self.locked (the flag of this very handle)
AlreadyLocked(h) == locked[h]

\* line 409: if self.locked and not blocking: return False
RefusesAtOnce(h, b) == locked[h] /\ ~b

\* lines 409-412: entry of acquire(blocking), called as o (directly or by __enter__)
AcquireBegin(h, b, o) ==
    /\ pc[h] = "idle"
    /\ IF RefusesAtOnce(h, b)
       THEN Finish(h, o, "False")
       ELSE /\ pc' = [pc EXCEPT ![h] = "loop"]
            /\ ret' = [ret EXCEPT ![h] = "none"]
            /\ op' = [op EXCEPT ![h] = o]
            /\ blocking' = [blocking EXCEPT ![h] = b]
            /\ elapsed' = [elapsed EXCEPT ![h] = 0]
            /\ reentrant' = [reentrant EXCEPT ![h] = locked[h]]
            /\ contended' = [contended EXCEPT ![h] = OtherLocked(h, h)]
            /\ slept' = [slept EXCEPT ![h] = FALSE]
            /\ UNCHANGED trail
    /\ UNCHANGED <<cfgVars, locked, lockfile, remaining, osVars>>

\* acquire(blocking) called directly
AcquireCall(h, b) ==
    /\ ~InBody(h)
    /\ AcquireBegin(h, b, "acquire")
    /\ UNCHANGED guardVars

\* lines 420-422 and 441-442: time.sleep(self.delay)
Sleep(h) ==
    /\ pc' = [pc EXCEPT ![h] = "sleep"]
    /\ remaining' = [remaining EXCEPT ![h] = delay[h]]
    /\ slept' = [slept EXCEPT ![h] = TRUE]
    /\ UNCHANGED <<blocking, elapsed, reentrant, contended, seenVars>>

\* lines 413-422: top of the polling loop
AcquireLoop(h) ==
    /\ pc[h] = "loop"
    /\ IF TimedOut(h)
       THEN Finish(h, op[h], "AcquisitionError") /\ UNCHANGED remaining
       ELSE IF AlreadyLocked(h)
       THEN Sleep(h)
       ELSE pc' = [pc EXCEPT ![h] = "open"] /\ UNCHANGED <<callVars, seenVars>>
    /\ UNCHANGED <<cfgVars, locked, lockfile, osVars>>
    /\ UNCHANGED guardVars

\* lines 425-426: open the lock file unless this handle has it open
AcquireOpen(h) ==
    /\ pc[h] = "open"
    /\ IF lockfile[h] = 0
       THEN /\ lockfile' = [lockfile EXCEPT ![h] = OpenAppend]
            /\ path' = OpenAppend
       ELSE UNCHANGED <<lockfile, path>>
    /\ pc' = [pc EXCEPT ![h] = "try"]
    /\ UNCHANGED <<cfgVars, locked, callVars, seenVars, owner>>
    /\ UNCHANGED guardVars

\* lines 429-442: fcntl.lockf(LOCK_EX | LOCK_NB), granted or EACCES/EAGAIN
AcquireTry(h) ==
    /\ pc[h] = "try"
    /\ IF LockfGranted(proc[h], lockfile[h])
       THEN /\ owner' = [owner EXCEPT ![lockfile[h]] = proc[h]]
            /\ locked' = [locked EXCEPT ![h] = TRUE]
            /\ Finish(h, op[h], "True")
            /\ UNCHANGED remaining
       ELSE IF ~blocking[h]
       THEN /\ Finish(h, op[h], "False")
            /\ UNCHANGED <<owner, locked, remaining>>
       ELSE /\ Sleep(h)
            /\ UNCHANGED <<owner, locked>>
    /\ UNCHANGED <<cfgVars, lockfile, path>>
    /\ UNCHANGED guardVars

\* (mutant) every IOError of lockf is taken for contention
AcquireTryError_Retried(h) ==
    /\ pc[h] = "try"
    /\ IF blocking[h]
       THEN Sleep(h)
       ELSE Finish(h, op[h], "False") /\ UNCHANGED remaining
    /\ UNCHANGED <<cfgVars, locked, lockfile, osVars>>
    /\ UNCHANGED guardVars

\* lines 433-435: lockf fails with an errno other than EACCES/EAGAIN: re-raised
AcquireTryError(h) ==
    /\ pc[h] = "try"
    /\ Finish(h, op[h], "IOError")
    /\ UNCHANGED <<cfgVars, locked, lockfile, remaining, osVars>>
    /\ UNCHANGED guardVars

\* time.sleep(self.delay) returns; `continue` / fall through to the loop top
Wake(h) ==
    /\ pc[h] = "sleep"
    /\ remaining[h] = 0
    /\ pc' = [pc EXCEPT ![h] = "loop"]
    /\ UNCHANGED <<cfgVars, locked, lockfile, callVars, seenVars, osVars>>
    /\ UNCHANGED guardVars

\* one unit of wall-clock time passes: only sleeping handles let it pass.
\* The elapsed time is kept only where line 416 reads it (self.timeout set).
Tick ==
    /\ \E h \in Handles : pc[h] = "sleep"
    /\ \A h \in Handles : pc[h] \in {"idle", "sleep"}
    /\ \A h \in Handles : pc[h] = "sleep" => remaining[h] > 0
    /\ remaining' = [h \in Handles |->
                        IF pc[h] = "sleep" THEN remaining[h] - 1 ELSE remaining[h]]
    /\ elapsed' = [h \in Handles |->
                      IF pc[h] = "sleep" /\ timeout[h] # 0
                      THEN Min(elapsed[h] + 1, ElapsedCap)
                      ELSE elapsed[h]]
    /\ UNCHANGED <<cfgVars, pc, locked, lockfile, blocking, reentrant, contended,
                   slept, seenVars, osVars>>
    /\ UNCHANGED guardVars

\* (mutant) the IOError of a failed unlock reaches the caller
ReleaseBegin_Raises(h, o) ==
    /\ pc[h] = "idle"
    /\ IF ~locked[h]
       THEN /\ Finish(h, o, "False")
            /\ UNCHANGED owner
       ELSE \/ /\ Finish(h, o, "IOError")
               /\ UNCHANGED owner
            \/ /\ owner' = Unlocked(proc[h], lockfile[h])
               /\ pc' = [pc EXCEPT ![h] = "rel_clear"]
               /\ ret' = [ret EXCEPT ![h] = "none"]
               /\ op' = [op EXCEPT ![h] = o]
               /\ contended' = [k \in Handles |-> contended[k] /\ OtherLocked(k, h)]
               /\ UNCHANGED <<trail, blocking, elapsed, reentrant, slept>>
    /\ UNCHANGED <<cfgVars, locked, lockfile, remaining, path>>

\* lines 448-454: entry of release(), called as o (directly or by __exit__);
\* fcntl.lockf(LOCK_UN) may fail with IOError, which is swallowed
ReleaseBegin(h, o) ==
    /\ pc[h] = "idle"
    /\ IF ~locked[h]
       THEN /\ Finish(h, o, "False")
            /\ UNCHANGED owner
       ELSE /\ \E ok \in BOOLEAN :
                 owner' = IF ok THEN Unlocked(proc[h], lockfile[h]) ELSE owner
            /\ pc' = [pc EXCEPT ![h] = "rel_clear"]
            /\ ret' = [ret EXCEPT ![h] = "none"]
            /\ op' = [op EXCEPT ![h] = o]
            /\ contended' = [k \in Handles |-> contended[k] /\ OtherLocked(k, h)]
            /\ UNCHANGED <<trail, blocking, elapsed, reentrant, slept>>
    /\ UNCHANGED <<cfgVars, locked, lockfile, remaining, path>>

\* release() called directly
ReleaseCall(h) ==
    /\ ~InBody(h)
    /\ ReleaseBegin(h, "release")
    /\ UNCHANGED guardVars

\* (mutant) the file object is dropped but the flag stays set
ReleaseClear_KeepFlag(h) ==
    /\ pc[h] = "rel_clear"
    /\ lockfile' = [lockfile EXCEPT ![h] = 0]
    /\ owner' = Unlocked(proc[h], lockfile[h])
    /\ pc' = [pc EXCEPT ![h] = "rel_unlink"]
    /\ UNCHANGED <<cfgVars, locked, callVars, seenVars, path>>
    /\ UNCHANGED guardVars

\* lines 456-457: clear the flag and drop the file object, which closes the
\* descriptor and with it every lock of this process on the inode
ReleaseClear(h) ==
    /\ pc[h] = "rel_clear"
    /\ locked' = [locked EXCEPT ![h] = FALSE]
    /\ lockfile' = [lockfile EXCEPT ![h] = 0]
    /\ owner' = Unlocked(proc[h], lockfile[h])
    /\ pc' = [pc EXCEPT ![h] = "rel_unlink"]
    /\ UNCHANGED <<cfgVars, callVars, seenVars, path>>
    /\ UNCHANGED guardVars

\* lines 458-463: os.unlink(self.lockfile), errors swallowed; return True
ReleaseUnlink(h) ==
    /\ pc[h] = "rel_unlink"
    /\ path' = 0
    /\ Finish(h, op[h], "True")
    /\ UNCHANGED <<cfgVars, locked, lockfile, remaining, owner>>
    /\ UNCHANGED guardVars

\* lines 465-468: __enter__ calls self.acquire()
EnterScope(h) ==
    /\ ~InBody(h)
    /\ AcquireBegin(h, TRUE, "enter")
    /\ UNCHANGED guardVars

\* (mutant) __exit__ releases only when the body ended normally
ExitScope_OnlyOnSuccess(h, err) ==
    /\ InBody(h)
    /\ IF err
       THEN /\ Finish(h, "exit_err", "False")
            /\ UNCHANGED <<cfgVars, locked, lockfile, remaining, osVars>>
       ELSE ReleaseBegin(h, "exit_ok")
    /\ UNCHANGED guardVars

\* lines 470-472: the body of the with-block ends, normally or with an error
\* propagating; __exit__ calls self.release() and returns None
ExitScope(h, err) ==
    /\ InBody(h)
    /\ ReleaseBegin(h, IF err THEN "exit_err" ELSE "exit_ok")
    /\ UNCHANGED guardVars

LockInit ==
    /\ proc \in {f \in [Handles -> Procs] : f["h1"] = "p1"}
    /\ timeout \in {f \in [Handles -> 0..MaxTimeout] : f["h1"] = DefaultTimeout}
    /\ delay \in {f \in [Handles -> 1..MaxDelay] : f["h1"] = DefaultDelay}
    /\ pc = [h \in Handles |-> "idle"]
    /\ locked = [h \in Handles |-> FALSE]
    /\ lockfile = [h \in Handles |-> 0]
    /\ blocking = [h \in Handles |-> TRUE]
    /\ elapsed = [h \in Handles |-> 0]
    /\ remaining = [h \in Handles |-> 0]
    /\ reentrant = [h \in Handles |-> FALSE]
    /\ contended = [h \in Handles |-> FALSE]
    /\ slept = [h \in Handles |-> FALSE]
    /\ ret = [h \in Handles |-> "none"]
    /\ op = [h \in Handles |-> "none"]
    /\ trail = [h \in Handles |-> <<>>]
    /\ path = 0
    /\ owner = [i \in Inodes |-> NoProc]

\* -------------------------------------------------------- uninterruptible
\* signal.SIGTERM
SIGTERM == 15

\* what the wrapped function may return
Values == {"None", "v1"}

\* dispositions a program has before it calls a guarded function: the default
\* action (terminate), ignore, or a handler of its own
Plain == {"SIG_DFL", "SIG_IGN", "user"}

Top == stack[Len(stack)]
SetTop(f) == [stack EXCEPT ![Len(stack)] = f]
Pop == SubSeq(stack, 1, Len(stack) - 1)
At(label) == alive = "running" /\ stack # <<>> /\ Top.pc = label

\* lines 506-508: signal_handler of guard g stores (signum, frame)
SignalHandler(g, sig) == [caught EXCEPT ![g] = sig]

\* (mutant) no previous handler is taken to be callable
Callable_Never(d) == FALSE

\* line 525: callable(self.old_signal_handler): a Python function or bound method
Callable(d) == d = "user" \/ d \in Guards

\* the kernel delivers a SIGTERM; the arrival's number stands for its frame
Signal ==
    /\ alive = "running"
    /\ sigCount < MaxSignals
    /\ sigCount' = sigCount + 1
    /\ LET sig == <<SIGTERM, sigCount + 1>> IN
       CASE disp = "SIG_DFL" ->
              alive' = "killed" /\ UNCHANGED <<caught, userCalls, stack>>
         [] disp = "SIG_IGN" ->
              UNCHANGED <<alive, caught, userCalls, stack>>
         [] disp = "user" ->
              /\ userCalls' = Append(userCalls, <<sig, "direct">>)
              /\ UNCHANGED <<alive, caught, stack>>
         [] disp \in Guards ->
              /\ caught' = SignalHandler(disp, sig)
              /\ stack' = IF stack # <<>> /\ Top.g = disp /\ Top.pc \in {"func", "restore"}
                          THEN SetTop([Top EXCEPT !.arrived = sig])
                          ELSE stack
              /\ UNCHANGED <<alive, userCalls>>
    /\ UNCHANGED <<disp, old, outcome>>
    /\ UNCHANGED lockVars

\* line 512: __call__ of guard g begins: self._caught_signal = None
GuardCall(g) ==
    /\ alive = "running"
    /\ stack = <<>>
    /\ stack' = <<[g |-> g, pc |-> "getsignal", entry |-> disp, arrived |-> <<>>,
                   value |-> "None"]>>
    /\ caught' = [caught EXCEPT ![g] = <<>>]
    /\ outcome' = [kind |-> "none"]
    /\ UNCHANGED <<disp, old, alive, userCalls, sigCount>>
    /\ UNCHANGED lockVars

\* line 514: self.old_signal_handler = signal.getsignal(signal.SIGTERM)
GetSignal ==
    /\ At("getsignal")
    /\ old' = [old EXCEPT ![Top.g] = disp]
    /\ stack' = SetTop([Top EXCEPT !.pc = "install"])
    /\ UNCHANGED <<disp, caught, alive, userCalls, sigCount, outcome>>
    /\ UNCHANGED lockVars

\* (mutant) the capturing handler is never installed
Install_Skipped ==
    /\ At("install")
    /\ stack' = SetTop([Top EXCEPT !.pc = "func"])
    /\ UNCHANGED <<disp, caught, old, alive, userCalls, sigCount, outcome>>
    /\ UNCHANGED lockVars

\* line 515: signal.signal(signal.SIGTERM, self.signal_handler)
Install ==
    /\ At("install")
    /\ disp' = Top.g
    /\ stack' = SetTop([Top EXCEPT !.pc = "func"])
    /\ UNCHANGED <<caught, old, alive, userCalls, sigCount, outcome>>
    /\ UNCHANGED lockVars

\* line 517: self.func(*args, **kwargs) returns v
FuncReturn(v) ==
    /\ At("func")
    /\ stack' = SetTop([Top EXCEPT !.pc = "restore", !.value = v])
    /\ UNCHANGED <<disp, caught, old, alive, userCalls, sigCount, outcome>>
    /\ UNCHANGED lockVars

\* line 517: self.func(*args, **kwargs) raises: nothing in __call__ catches it,
\* so the rest of __call__ is skipped and the error reaches the caller
FuncRaise ==
    /\ At("func")
    /\ stack' = Pop
    /\ outcome' = [kind |-> "raised", g |-> Top.g, entry |-> Top.entry,
                   arrived |-> Top.arrived, error |-> "error"]
    /\ UNCHANGED <<disp, caught, old, alive, userCalls, sigCount>>
    /\ UNCHANGED lockVars

\* line 520: signal.signal(signal.SIGTERM, self.old_signal_handler)
Restore ==
    /\ At("restore")
    /\ disp' = old[Top.g]
    /\ stack' = SetTop([Top EXCEPT !.pc = "deliver"])
    /\ UNCHANGED <<caught, old, alive, userCalls, sigCount, outcome>>
    /\ UNCHANGED lockVars

\* the value __call__ hands back: line 517 drops the function's result and
\* __call__ has no return statement
CallResult(v) == "None"

\* lines 523-528: handle the signal caught during execution, then return
Deliver ==
    /\ At("deliver")
    /\ LET g == Top.g
           done == [kind |-> "returned", g |-> g, entry |-> Top.entry,
                    arrived |-> Top.arrived, funcValue |-> Top.value,
                    value |-> CallResult(Top.value)]
       IN
       IF caught[g] # <<>> /\ ~Callable(old[g]) /\ old[g] = "SIG_DFL"
       THEN \* sys.exit(0)
            /\ alive' = "exited"
            /\ stack' = <<>>
            /\ outcome' = [kind |-> "exit", g |-> g, entry |-> Top.entry,
                           arrived |-> Top.arrived]
            /\ UNCHANGED <<caught, userCalls>>
       ELSE /\ stack' = Pop
            /\ outcome' = done
            /\ alive' = alive
            /\ IF caught[g] # <<>> /\ Callable(old[g]) /\ old[g] = "user"
               THEN userCalls' = Append(userCalls, <<caught[g], "redelivered">>)
               ELSE UNCHANGED userCalls
            /\ IF caught[g] # <<>> /\ Callable(old[g]) /\ old[g] \in Guards
               THEN caught' = SignalHandler(old[g], caught[g])
               ELSE UNCHANGED caught
    /\ UNCHANGED <<disp, old, sigCount>>
    /\ UNCHANGED lockVars

GuardIdle ==
    /\ caught = [g \in Guards |-> <<>>]
    /\ old = [g \in Guards |-> "unset"]
    /\ stack = <<>>
    /\ alive = "running"
    /\ userCalls = <<>>
    /\ sigCount = 0
    /\ outcome = [kind |-> "none"]

GuardInit == disp \in Plain /\ GuardIdle

LockIdle == LockInit /\ proc["h2"] = "p2" /\ timeout["h2"] = 0 /\ delay["h2"] = 1

GuardNext ==
    \/ Signal
    \/ \E g \in Guards : GuardCall(g)
    \/ GetSignal
    \/ Install
    \/ \E v \in Values : FuncReturn(v)
    \/ FuncRaise
    \/ Restore
    \/ Deliver

LockNext ==
    \/ \E h \in Handles, b \in BOOLEAN : AcquireCall(h, b)
    \/ \E h \in Handles : AcquireLoop(h)
    \/ \E h \in Handles : AcquireOpen(h)
    \/ \E h \in Handles : AcquireTry(h)
    \/ \E h \in Handles : AcquireTryError(h)
    \/ \E h \in Handles : Wake(h)
    \/ Tick
    \/ \E h \in Handles : ReleaseCall(h)
    \/ \E h \in Handles : ReleaseClear(h)
    \/ \E h \in Handles : ReleaseUnlink(h)
    \/ \E h \in Handles : EnterScope(h)
    \/ \E h \in Handles, err \in BOOLEAN : ExitScope(h, err)

\* the lock handles at work in a program that never calls a guarded function
LockStart == LockInit /\ disp = "SIG_DFL" /\ GuardIdle

LockSpec == LockStart /\ [][LockNext]_vars

\* guarded functions at work in a program whose lock handles stay unused
GuardStart == LockIdle /\ GuardInit

GuardSpec == GuardStart /\ [][GuardNext]_vars

\* ------------------------------------------------------ nested invocations
\* lines 510-517: the function running inside the innermost invocation calls
\* a guarded function, of the same guard (a recursive decorated function)
\* or of another; line 512 of the new invocation: self._caught_signal = None
NestedCall(g) ==
    /\ At("func")
    /\ Len(stack) < MaxDepth
    /\ stack' = Append(stack, [g |-> g, pc |-> "getsignal", entry |-> disp,
                               arrived |-> <<>>, value |-> "None"])
    /\ caught' = [caught EXCEPT ![g] = <<>>]
    /\ UNCHANGED <<disp, old, alive, userCalls, sigCount, outcome>>
    /\ UNCHANGED lockVars

NestNext ==
    \/ Signal
    \/ \E g \in Guards : GuardCall(g)
    \/ \E g \in Guards : NestedCall(g)
    \/ GetSignal
    \/ Install
    \/ \E v \in Values : FuncReturn(v)
    \/ Restore
    \/ Deliver

\* guarded functions that call guarded functions, all of which return
NestSpec == GuardStart /\ [][NestNext]_vars

\* ------------------------------------------------------ retry after timeout
\* lines 446-463: release() has returned on handle k since k last acquired
Released(k) == pc[k] = "idle" /\ ~locked[k] /\ Len(trail[k]) >= 2

\* lines 399-412: the caller of an acquire() that raised AcquisitionError
\* calls acquire() again on the same handle, once the other handles have
\* released
AcquireRetry(h) ==
    /\ ~locked[h]
    /\ op[h] \in AcquireOps /\ ret[h] = "AcquisitionError"
    /\ \A k \in Handles \ {h} : Released(k)
    /\ AcquireBegin(h, TRUE, "retry")
    /\ UNCHANGED guardVars

RetryNext ==
    \/ LockNext
    \/ \E h \in Handles : AcquireRetry(h)

\* two handles in two processes
RetryStart == LockStart /\ proc["h2"] = "p2"

RetrySpec == RetryStart /\ [][RetryNext]_vars

\* ------------------------------------------------------------ process exit
\* line 392: atexit.register(self.release). A process that ends normally
\* runs the registered release() of each of its handles, one after the
\* other; op "atexit" marks a handle whose registered release() was called.
Exiting(p) == \E h \in Handles : proc[h] = p /\ op[h] \in {"atexit", "gone"}

\* every registered release() of process p has been called and has returned
AtExitDone(p) ==
    /\ Exiting(p)
    /\ \A h \in Handles : proc[h] = p => (pc[h] = "idle" /\ op[h] \in {"atexit", "gone"})

\* the process is no more
Gone(p) == \E h \in Handles : proc[h] = p /\ op[h] = "gone"

\* the program of the handle's process is still running
Running(h) == ~Exiting(proc[h])

\* (mutant) release() was never registered: at exit nothing is called
AtExit_Unregistered(h) ==
    /\ op[h] \notin {"atexit", "gone"}
    /\ \A k \in Handles : proc[k] = proc[h] => (pc[k] = "idle" /\ ~InBody(k))
    /\ Finish(h, "atexit", "False")
    /\ UNCHANGED <<cfgVars, locked, lockfile, remaining, osVars>>
    /\ UNCHANGED guardVars

\* lines 392, 446-463: the process of h ends normally (its handles are in no
\* call and in no with-block) and the interpreter calls the release() that h
\* registered; the order among the handles of the process is the reverse of
\* their creation, which is any order
AtExit(h) ==
    /\ op[h] \notin {"atexit", "gone"}
    /\ \A k \in Handles : proc[k] = proc[h] => (pc[k] = "idle" /\ ~InBody(k))
    /\ ReleaseBegin(h, "atexit")
    /\ UNCHANGED guardVars

\* the lock table after process p has closed every descriptor it had
Closed(p) == [i \in Inodes |-> IF owner[i] = p THEN NoProc ELSE owner[i]]

\* after the exit actions the process terminates: the operating system
\* closes its descriptors, which drops whatever record locks it still owns
ProcessEnd(p) ==
    /\ AtExitDone(p)
    /\ ~Gone(p)
    /\ op' = [h \in Handles |-> IF proc[h] = p THEN "gone" ELSE op[h]]
    /\ lockfile' = [h \in Handles |-> IF proc[h] = p THEN 0 ELSE lockfile[h]]
    /\ owner' = Closed(p)
    /\ UNCHANGED <<cfgVars, pc, locked, callVars, ret, trail, path>>
    /\ UNCHANGED guardVars

\* a call made by the program that owns handle h
Call(h) ==
    \/ \E b \in BOOLEAN : AcquireCall(h, b)
    \/ ReleaseCall(h)
    \/ EnterScope(h)
    \/ \E err \in BOOLEAN : ExitScope(h, err)

\* the next statement of the call in progress on handle h
Step(h) ==
    \/ AcquireLoop(h)
    \/ AcquireOpen(h)
    \/ AcquireTry(h)
    \/ AcquireTryError(h)
    \/ Wake(h)
    \/ ReleaseClear(h)
    \/ ReleaseUnlink(h)

\* the exit actions of the process of h: nothing else runs in it by then
ExitStep(h) == Exiting(proc[h]) /\ (AtExit(h) \/ Step(h))

ExitNext ==
    \/ \E h \in Handles : Running(h) /\ Call(h)
    \/ \E h \in Handles : Step(h)
    \/ Tick
    \/ \E h \in Handles : AtExit(h)
    \/ \E p \in Procs : ProcessEnd(p)

\* two handles with the default configuration, in one process or in two
ExitStart ==
    /\ LockStart
    /\ timeout["h2"] = DefaultTimeout
    /\ delay["h2"] = DefaultDelay

\* lock handles in processes that may end; a process that has begun to end
\* runs its exit actions to completion and then terminates
ExitSpec ==
    /\ ExitStart
    /\ [][ExitNext]_vars
    /\ \A h \in Handles : WF_vars(ExitStep(h))
    /\ \A p \in Procs : WF_vars(ProcessEnd(p))

\* ================================================================ claims

\* C1: mutual exclusion across processes - no reachable state has two
\* handles of different processes, bound to the same path, both with
\* locked == true.
\* (A handle inside release() has given the OS lock up before it clears its
\* flag; the flag of such a handle is not counted.)
C1_MutualExclusion ==
    \A a, b \in Handles :
        (a # b /\ proc[a] # proc[b] /\ ~Releasing(a) /\ ~Releasing(b))
            => ~(locked[a] /\ locked[b])

\* ---------------------------------------------------------------- C2
\* the innermost invocation has installed its capturing handler and has not
\* yet restored the previous one
InGuard == stack # <<>> /\ Top.pc \in {"func", "restore"}

\* C2: deferral - from the installation of the capturing handler until the
\* previous handler is restored, a SIGTERM that arrives is only recorded as
\* (signal, frame) in the pending slot of the guard: the process is not
\* terminated, the program's own handler is not invoked, and the invocation
\* stays where it was, so the unit of work runs to completion.
C2_Deferral ==
    [][InGuard =>
          /\ alive' = "running"
          /\ userCalls' = userCalls
          /\ sigCount' # sigCount =>
                /\ caught' = [caught EXCEPT ![Top.g] = <<SIGTERM, sigCount'>>]
                /\ disp' = disp
                /\ Len(stack') = Len(stack)
                /\ stack'[Len(stack)].pc = Top.pc
                /\ stack'[Len(stack)].value = Top.value]_vars

\* a SIGTERM has arrived in a guarded window of a process whose disposition
\* was the default action, and the process is still running the function
C2_Witness ==
    /\ InGuard
    /\ Top.pc = "func"
    /\ Top.entry = "SIG_DFL"
    /\ Top.arrived # <<>>
    /\ caught[Top.g] = Top.arrived
    /\ alive = "running"

\* ---------------------------------------------------------------- C3
\* the step that ends an invocation whose function returned (lines 523-528)
Delivering == At("deliver") /\ stack' # stack

\* C3: redelivery - when the function has returned and the previous handler
\* is restored, a SIGTERM that arrived in the guarded window has the effect
\* of the disposition in force at entry: a callable handler is called with
\* the captured (signal, frame), the default disposition makes the process
\* exit, ignore does nothing; with no arrival none of these effects occurs.
C3_Redelivery ==
    [][Delivering =>
          IF Top.arrived # <<>>
          THEN CASE Top.entry = "user" ->
                      /\ userCalls' = Append(userCalls, <<Top.arrived, "redelivered">>)
                      /\ alive' = "running"
                 [] Top.entry = "SIG_DFL" ->
                      /\ alive' = "exited"
                      /\ userCalls' = userCalls
                 [] Top.entry = "SIG_IGN" ->
                      /\ alive' = "running"
                      /\ userCalls' = userCalls
                 [] OTHER ->  \* a capturing handler an earlier invocation left behind
                      /\ caught'[Top.entry] = caught[Top.g]
                      /\ Top.entry # Top.g => caught[Top.g] = Top.arrived
                      /\ alive' = "running"
                      /\ userCalls' = userCalls
          ELSE /\ alive' = "running"
               /\ userCalls' = userCalls
               /\ caught' = caught]_vars

\* an invocation has returned after the program's own handler was called
\* with the signal captured during it
C3_Witness ==
    /\ outcome.kind = "returned"
    /\ outcome.entry = "user"
    /\ outcome.arrived # <<>>
    /\ userCalls # <<>>
    /\ userCalls[Len(userCalls)] = <<outcome.arrived, "redelivered">>

\* ---------------------------------------------------------------- C4
\* C4: when the wrapped function raises, the SIGTERM disposition the caller
\* finds on observing the error is the one recorded at entry, and the error
\* is the one the function raised.
C4_RestoredOnError ==
    outcome.kind = "raised" =>
        /\ disp = outcome.entry
        /\ outcome.error = "error"

\* ---------------------------------------------------------------- C9
\* C9: when the wrapped function returns a value and the process is not
\* terminated by redelivery, the guarded invocation returns that same value.
C9_SameResult ==
    outcome.kind = "returned" => outcome.value = outcome.funcValue

\* ---------------------------------------------------------------- C5
InAcquire(h) == pc[h] \in {"loop", "open", "try", "sleep"}

\* C5: timeout bound - with timeout > 0 a blocking acquire() that finds the
\* lock file locked fails with the acquisition-timeout error never before
\* timeout has elapsed since the call started and never later than
\* timeout + poll_interval after it: the call is over by then.
C5_TimeoutBound ==
    /\ [](\A h \in Handles :
            (InAcquire(h) /\ timeout[h] # 0) => elapsed[h] < timeout[h] + delay[h])
    /\ [][\A h \in Handles :
            (InAcquire(h) /\ ret'[h] = "AcquisitionError") =>
                /\ timeout[h] > 0
                /\ elapsed[h] >= timeout[h]
                /\ elapsed[h] <= timeout[h] + delay[h]]_vars

\* h2 (timeout 2, poll interval 2, or the like) has timed out on the file
\* that h1, in another process, holds locked
C5_Witness ==
    /\ proc["h1"] # proc["h2"]
    /\ timeout["h2"] = MaxTimeout
    /\ pc["h2"] = "idle" /\ op["h2"] = "acquire" /\ ret["h2"] = "AcquisitionError"
    /\ ~locked["h2"]
    /\ locked["h1"] /\ pc["h1"] = "idle"
    /\ lockfile["h1"] = lockfile["h2"]
    /\ HoldsOsLock("h1")

\* ---------------------------------------------------------------- C6
\* C6: acquire(blocking=False) called while the lock is held returns False,
\* without sleeping and without raising, and leaves the holder's state as it
\* was: (a) held by this same handle; (b) held, from before the call until
\* its end, by a handle of another process that is not releasing it.
C6_NonBlockingRefused ==
    [][\A h \in Handles :
          /\ (AcquireCall(h, FALSE) /\ locked[h]) =>
                (pc'[h] = "idle" /\ ret'[h] = "False" /\ locked' = locked)
          /\ (InAcquire(h) /\ ~blocking[h]) => pc'[h] # "sleep"
          /\ (/\ InAcquire(h) /\ ~blocking[h] /\ contended[h]
              /\ \A k \in Handles \ {h} : proc[k] # proc[h]
              /\ pc'[h] = "idle" /\ ret'[h] # "IOError")
                => (ret'[h] = "False" /\ locked' = locked)]_vars

\* ---------------------------------------------------------------- C7
\* C7: release() on a handle that is not locked returns False and changes
\* neither the flag, the open file, the lock file on disk nor the OS lock;
\* after an acquire() that returned True, two consecutive release() calls
\* return True and then False.
C7_ReleaseIdempotent ==
    /\ [](\A h \in Handles :
            /\ Len(trail[h]) >= 2 => trail[h][2] = "True"
            /\ Len(trail[h]) = 3 => trail[h][3] = "False")
    /\ [][\A h \in Handles :
            (ReleaseCall(h) /\ ~locked[h]) =>
                /\ pc'[h] = "idle" /\ ret'[h] = "False"
                /\ locked' = locked /\ lockfile' = lockfile
                /\ path' = path /\ owner' = owner]_vars

\* a handle has been acquired and then released twice
C7_Witness ==
    \E h \in Handles : trail[h] = <<"acquired", "True", "False">> /\ ~locked[h]

\* ---------------------------------------------------------------- C8
\* a blocking acquire() is in progress on a handle that held the lock when
\* the call was made
Reentering(h) == InAcquire(h) /\ reentrant[h] /\ blocking[h]

\* C8 as stated: a blocking acquire() on a handle that already holds the
\* lock returns True at once - no sleep, no timeout error, lock state as it
\* was - whatever the timeout.
C8_ReentrantReturnsTrue ==
    [][\A h \in Handles :
          Reentering(h) =>
              /\ pc'[h] # "sleep"
              /\ pc'[h] = "idle" => ret'[h] = "True"
              /\ locked'[h] = locked[h]]_vars

\* C8 as amended: such a call never returns True. It leaves the flag set and
\* the open file as they were, only sleeps between looks at its own flag, and
\* ends only with the acquisition-timeout error, once a non-zero timeout has
\* elapsed; with timeout zero it does not end while the flag stays set.
C8_ReentrantWaits ==
    [][\A h \in Handles :
          Reentering(h) =>
              /\ locked'[h] /\ lockfile'[h] = lockfile[h]
              /\ pc'[h] \in {"loop", "sleep", "idle"}
              /\ pc'[h] = "idle" =>
                    /\ ret'[h] = "AcquisitionError"
                    /\ slept[h]
                    /\ timeout[h] > 0 /\ elapsed[h] >= timeout[h]]_vars

\* a handle that holds the lock has had its own blocking acquire() time out
C8_Witness ==
    \E h \in Handles :
        /\ pc[h] = "idle" /\ op[h] = "acquire" /\ ret[h] = "AcquisitionError"
        /\ locked[h] /\ HoldsOsLock(h)

\* --------------------------------------------------------------- C10
\* the handle has just left a with-block, normally or with an error
LeftScope(h) == pc[h] = "idle" /\ op[h] \in {"exit_ok", "exit_err"}

\* __enter__ has just failed with the acquisition-timeout error
EnterTimedOut(h) == pc[h] = "idle" /\ op[h] = "enter" /\ ret[h] = "AcquisitionError"

\* C10 as stated: after a with-block is left, normally or with an error, the
\* handle is unlocked and holds no OS lock; and when entering fails with the
\* acquisition-timeout error the handle is left unlocked.
C10_ScopeReleases ==
    \A h \in Handles :
        /\ LeftScope(h) => (~locked[h] /\ ~HoldsOsLock(h))
        /\ EnterTimedOut(h) => ~locked[h]

\* C10 as amended: the first part as stated; and when entering fails with
\* the acquisition-timeout error the handle is left as it was when the
\* with-block was entered: unlocked, unless it already held the lock then.
C10_ScopeReleasesOrKeeps ==
    /\ [](\A h \in Handles :
            LeftScope(h) => (~locked[h] /\ lockfile[h] = 0 /\ ~HoldsOsLock(h)))
    /\ [][\A h \in Handles :
            (InAcquire(h) /\ op[h] = "enter" /\ ret'[h] = "AcquisitionError") =>
                /\ locked'[h] = reentrant[h]
                /\ locked'[h] = locked[h]]_vars

\* a with-block has been left by an error while the other handle, in another
\* process, was waiting for the lock
C10_Witness ==
    \E h \in Handles :
        /\ LeftScope(h) /\ op[h] = "exit_err" /\ ret[h] = "True"
        /\ \E k \in Handles \ {h} : proc[k] # proc[h] /\ InAcquire(k)

\* --------------------------------------------------------------- C11
\* C11: process-exit cleanup - release() is registered as an exit action of
\* every handle, so a handle that is locked when its process ends normally
\* ends unlocked, with no open lock file and no OS lock left to its process,
\* once the exit actions have run, and they do run to the end; from then on
\* a locking attempt by a handle of another process is granted.
C11_ExitCleanup ==
    /\ [](\A h \in Handles :
            AtExitDone(proc[h]) =>
                /\ ~locked[h] /\ ~HoldsOsLock(h)
                /\ \A i \in Inodes : owner[i] # proc[h])
    /\ [][\A h, k \in Handles :
            (/\ proc[k] # proc[h] /\ AtExitDone(proc[k])
             /\ pc[h] = "try" /\ pc'[h] # "try")
                => (pc'[h] = "idle" /\ ret'[h] \in {"True", "IOError"})]_vars
    /\ \A p \in Procs : Exiting(p) ~> Gone(p)

\* a process has ended whose exit action released the lock its handle held
\* (the last release() of that handle returned True), and the handle of the
\* other process holds the lock
C11_Witness ==
    \E h, k \in Handles :
        /\ proc[h] # proc[k]
        /\ Gone(proc[h]) /\ trail[h] = <<"acquired", "True">> /\ ~locked[h]
        /\ pc[k] = "idle" /\ ret[k] = "True" /\ op[k] = "acquire"
        /\ locked[k] /\ HoldsOsLock(k)

\* --------------------------------------------------------------- C12
\* C12: a timed-out acquisition is recoverable - when acquire() on a handle
\* that did not hold the lock fails with the acquisition-timeout error, it
\* has polled a file locked by another process, the handle is left unlocked
\* and flags, open files, lock file and OS locks are all as they were; and
\* when the holder has released, the handle's next acquire() takes the lock
\* of the file it kept open at its first attempt, without sleeping.
C12_Recoverable ==
    [][\A h \in Handles :
          /\ (InAcquire(h) /\ ~reentrant[h] /\ ret'[h] = "AcquisitionError") =>
                /\ slept[h] /\ lockfile[h] # 0
                /\ ~locked'[h] /\ locked' = locked /\ lockfile' = lockfile
                /\ path' = path /\ owner' = owner
          /\ (InAcquire(h) /\ op[h] = "retry") =>
                /\ lockfile[h] # 0 /\ lockfile'[h] = lockfile[h]
                /\ pc'[h] # "sleep"
                /\ pc'[h] = "idle" => ret'[h] \in {"True", "IOError"}]_vars

\* the acquire() that followed a timed-out one has returned True
C12_Witness ==
    \E h \in Handles :
        /\ pc[h] = "idle" /\ op[h] = "retry" /\ ret[h] = "True"
        /\ locked[h] /\ HoldsOsLock(h)

\* --------------------------------------------------------------- C13
\* C13: within one process at most one handle bound to the lock path holds
\* the lock - no reachable state has two handles of the same process both
\* with locked == true, so an acquire() on the second does not succeed until
\* the first has released.
\* (The flag of a handle inside release() is not counted.)
C13_OnePerProcess ==
    \A a, b \in Handles :
        (a # b /\ proc[a] = proc[b] /\ ~Releasing(a) /\ ~Releasing(b))
            => ~(locked[a] /\ locked[b])

\* --------------------------------------------------------------- C14
\* C14: a handle with locked == true has an open lock file, and its process
\* owns the OS lock on that file.
\* (A handle inside release() has given the OS lock up before it clears its
\* flag; such a handle is not counted.)
C14_LockedHoldsOsLock ==
    \A h \in Handles :
        (locked[h] /\ ~Releasing(h)) => (lockfile[h] # 0 /\ HoldsOsLock(h))

\* --------------------------------------------------------------- C19
\* C19: release() never unlinks the file at the lock path while a handle of
\* another process holds the OS lock on that file.
C19_NoUnlinkUnderHolder ==
    [][\A h \in Handles :
          (ReleaseUnlink(h) /\ path # 0) =>
              ~\E k \in Handles \ {h} :
                  /\ proc[k] # proc[h]
                  /\ locked[k] /\ lockfile[k] = path /\ HoldsOsLock(k)]_vars

\* --------------------------------------------------------------- C15
\* C15: only contention is retried - when the lockf of acquire() fails with
\* an error other than EACCES/EAGAIN, that error reaches the caller at once:
\* the call ends there without a sleep, the handle is unlocked as before and
\* nothing else has changed; the error is not the acquisition-timeout error,
\* which comes from the deadline test alone; and acquire() goes to sleep
\* after a locking attempt only when the lock was refused.
C15_OnlyContentionRetried ==
    /\ [](\A h \in Handles : ret[h] = "IOError" => (pc[h] = "idle" /\ ~locked[h]))
    /\ [][\A h \in Handles :
            /\ ret'[h] = "IOError" /\ ret[h] # "IOError" =>
                  /\ pc[h] = "try" /\ pc'[h] = "idle"
                  /\ ~locked[h] /\ locked' = locked /\ lockfile' = lockfile
                  /\ osVars' = osVars /\ remaining' = remaining
            /\ ret'[h] = "AcquisitionError" /\ ret[h] # "AcquisitionError" =>
                  pc[h] = "loop" /\ TimedOut(h)
            /\ (pc[h] = "try" /\ pc'[h] = "sleep") =>
                  ~LockfGranted(proc[h], lockfile[h])]_vars

\* a blocking acquire() has ended with the error of the locking attempt
\* although the lock was free
C15_Witness ==
    \E h \in Handles :
        /\ pc[h] = "idle" /\ op[h] = "acquire" /\ ret[h] = "IOError"
        /\ ~locked[h] /\ lockfile[h] # 0 /\ owner[lockfile[h]] = NoProc

\* --------------------------------------------------------------- C16
\* the calls that run release(): directly, by __exit__, or at process exit
ReleaseOps == {"release", "exit_ok", "exit_err", "atexit"}

\* C16: release failures never surface - release() on a locked handle goes
\* through unlock, clear and unlink whether or not the unlock succeeds and
\* whether or not the lock file is still there, returns True and leaves the
\* handle unlocked with no open lock file; no release() ends with an error.
C16_ReleaseNeverRaises ==
    /\ [](\A h \in Handles :
            /\ op[h] \in ReleaseOps => ret[h] \in {"none", "True", "False"}
            /\ pc[h] = "rel_unlink" => (~locked[h] /\ lockfile[h] = 0))
    /\ [][\A h \in Handles :
            /\ ((ReleaseCall(h) \/ \E err \in BOOLEAN : ExitScope(h, err)) /\ locked[h])
                  => (pc'[h] = "rel_clear" /\ ret'[h] = "none")
            /\ (pc[h] = "rel_clear" /\ pc'[h] # "rel_clear") => pc'[h] = "rel_unlink"
            /\ (pc[h] = "rel_unlink" /\ pc'[h] # "rel_unlink") =>
                  /\ pc'[h] = "idle" /\ ret'[h] = "True"
                  /\ ~locked'[h] /\ lockfile'[h] = 0 /\ path' = 0]_vars

\* a release() has returned True, the handle is unlocked, and the release()
\* of the other handle is about to unlink the lock file that is gone already
C16_Witness ==
    \E h \in Handles :
        /\ pc[h] = "idle" /\ op[h] = "release" /\ ret[h] = "True"
        /\ ~locked[h] /\ lockfile[h] = 0
        /\ \E k \in Handles \ {h} : pc[k] = "rel_unlink" /\ path = 0

\* --------------------------------------------------------------- C18
\* C18: a timeout of zero means wait for ever - a blocking acquire() on a
\* handle with timeout 0 that did not hold the lock never fails with the
\* acquisition-timeout error; a refused locking attempt is followed by a
\* sleep of poll_interval and another look, and the first attempt that finds
\* the OS lock free ends the call with True.
C18_ZeroTimeoutWaits ==
    [][\A h \in Handles :
          (InAcquire(h) /\ timeout[h] = 0 /\ blocking[h] /\ ~reentrant[h]) =>
              /\ ret'[h] # "AcquisitionError"
              /\ (pc[h] = "loop" /\ pc'[h] # "loop") => pc'[h] = "open"
              /\ (pc[h] = "open" /\ pc'[h] # "open") => pc'[h] = "try"
              /\ (pc[h] = "try" /\ pc'[h] # "try" /\ ret'[h] # "IOError") =>
                    IF LockfGranted(proc[h], lockfile[h])
                    THEN pc'[h] = "idle" /\ ret'[h] = "True" /\ locked'[h]
                    ELSE pc'[h] = "sleep" /\ remaining'[h] = delay[h]
              /\ (pc[h] = "sleep" /\ pc'[h] # "sleep") =>
                    (remaining[h] = 0 /\ pc'[h] = "loop")]_vars

\* a handle with timeout 0 that has slept, because the other process held
\* the lock, is at the first locking attempt that finds the lock free: the
\* holder's release() has returned
C18_Witness ==
    \E h, k \in Handles :
        /\ proc[h] # proc[k]
        /\ timeout[h] = 0 /\ blocking[h] /\ ~reentrant[h]
        /\ pc[h] = "try" /\ slept[h]
        /\ LockfGranted(proc[h], lockfile[h])
        /\ Released(k)

\* --------------------------------------------------------------- C17
\* C17: a captured signal is not lost when the function raises - if a
\* SIGTERM arrived in the guarded window of an invocation whose function
\* raises, the effect of the disposition in force at entry has occurred by
\* the time the caller observes the error: the program's own handler has been
\* called with the captured signal, and under the default disposition the
\* process has exited instead.
C17_DeliveredOnError ==
    (outcome.kind = "raised" /\ outcome.arrived # <<>>) =>
        /\ outcome.entry # "SIG_DFL"
        /\ outcome.entry = "user" =>
              \E i \in 1..Len(userCalls) :
                  userCalls[i] = <<outcome.arrived, "redelivered">>

\* --------------------------------------------------------------- C20
\* C20: nested guarded invocations restore the original disposition - when
\* the outermost invocation has returned, whatever guarded functions its
\* function called, of the same guard or of another, the SIGTERM disposition
\* is the one that was in force when the outermost invocation began.
C20_NestedRestores ==
    (stack = <<>> /\ alive = "running" /\ outcome.kind = "returned")
        => disp = outcome.entry

====
